---- MODULE Spec2Model ----
(***************************************************************************)
(* Model of nlp_architect/models/sa_bert/absa_utils.py:                    *)
(*   read_examples_from_file      (the corpus reader, ReaderSpec)          *)
(*   convert_examples_to_features (the feature encoder, EncoderSpec)       *)
(* Strings are modelled as sequences of one-character strings, so that     *)
(* str.split and file line iteration are computed, not assumed.            *)
(***************************************************************************)
EXTENDS Integers, Sequences, FiniteSets, TLC

(***************************************************************************)
(* Bounds of the model.                                                    *)
(***************************************************************************)
\* longest corpus file, in characters
MaxFileLen == 6
\* most examples in one call of the encoder
MaxExamples == 2
\* most words in one call of the encoder, over all its examples
MaxWords == 3
\* largest max_seq_length a caller passes
MaxSeqLen == 5

(***************************************************************************)
(* Generic sequence helpers.                                               *)
(***************************************************************************)
SeqsUpTo(S, n) == UNION {[1..k -> S] : k \in 0..n}

Last(s) == s[Len(s)]

\* mutant of Slice: keeps the last elements of s, not the first
SliceTail(s, n) ==
    LET stop == IF n >= 0 THEN (IF n < Len(s) THEN n ELSE Len(s))
                ELSE (IF Len(s) + n > 0 THEN Len(s) + n ELSE 0)
    IN  SubSeq(s, Len(s) - stop + 1, Len(s))

\* Python's s[:n] for a list s, negative n counting from the end
Slice(s, n) ==
    LET stop == IF n >= 0 THEN (IF n < Len(s) THEN n ELSE Len(s))
                ELSE (IF Len(s) + n > 0 THEN Len(s) + n ELSE 0)
    IN  SubSeq(s, 1, stop)

\* Python's [x] * n, the empty list when n <= 0
Repeat(x, n) == [i \in 1..(IF n > 0 THEN n ELSE 0) |-> x]

(***************************************************************************)
(* The corpus reader.                                                      *)
(***************************************************************************)
\* the characters a corpus file is drawn from
Chars == {"a", "b", " ", "\t", "\n"}

\* the characters str.split() treats as separators
Whitespace == {" ", "\t", "\n"}

\* the label given to a line that carries a word only
DefaultLabel == <<"O">>

RECURSIVE SplitLinesFrom(_, _, _)
\* `for line in f`: each line runs up to and including its newline; the
\* last line may lack one.  cur is the line being collected.
SplitLinesFrom(text, i, cur) ==
    IF i > Len(text)
    THEN IF cur = <<>> THEN <<>> ELSE <<cur>>
    ELSE IF text[i] = "\n"
         THEN <<Append(cur, "\n")>> \o SplitLinesFrom(text, i + 1, <<>>)
         ELSE SplitLinesFrom(text, i + 1, Append(cur, text[i]))

SplitLines(text) == SplitLinesFrom(text, 1, <<>>)

RECURSIVE SplitFrom(_, _, _)
\* line.split(): the maximal runs of non-whitespace characters, in order
SplitFrom(line, i, cur) ==
    IF i > Len(line)
    THEN IF cur = <<>> THEN <<>> ELSE <<cur>>
    ELSE IF line[i] \in Whitespace
         THEN (IF cur = <<>> THEN <<>> ELSE <<cur>>) \o SplitFrom(line, i + 1, <<>>)
         ELSE SplitFrom(line, i + 1, Append(cur, line[i]))

Split(line) == SplitFrom(line, 1, <<>>)

\* s.replace("\n", "")
StripNewlines(s) ==
    LET keep == {i \in 1..Len(s) : s[i] # "\n"}
        RECURSIVE Pick(_)
        Pick(i) == IF i > Len(s) THEN <<>>
                   ELSE (IF i \in keep THEN <<s[i]>> ELSE <<>>) \o Pick(i + 1)
    IN  Pick(1)

\* mutant of IsBlankLine: the test `line.strip() == ''`
IsBlankLineStripped(line) == \A i \in 1..Len(line) : line[i] \in Whitespace

\* the test `line in ('', '\n')`
IsBlankLine(line) == line \in {<<>>, <<"\n">>}

\* mutant of LineLabel: the label is the second field, not the last
LineLabelSecondField(splits) ==
    IF Len(splits) > 1 THEN StripNewlines(splits[2]) ELSE DefaultLabel

\* the label a line's fields give
LineLabel(splits) ==
    IF Len(splits) > 1 THEN StripNewlines(Last(splits)) ELSE DefaultLabel

InputExample(guid, words, labels) ==
    [guid |-> guid, words |-> words, labels |-> labels]

\* mutant of Emit: appends an example even when no word was collected
EmitEvenIfEmpty(exs, g, w, l) == Append(exs, InputExample(g, w, l))

\* `if words: examples.append(...)`: the examples after a block boundary
Emit(exs, g, w, l) ==
    IF w # <<>> THEN Append(exs, InputExample(g, w, l)) ELSE exs

(***************************************************************************)
(* The tokenizer, an external collaborator of the encoder.  Two are        *)
(* modelled: a WordPiece one (pad id 0, pad segment 0) that splits "food"  *)
(* in two and a SentencePiece one (pad id 5, pad segment 3) that keeps    *)
(* every word whole.  Both clean the word "zwsp" (a zero-width space) away *)
(* and return no sub-token for it.                                         *)
(***************************************************************************)
WordPiece ==
    [name |-> "wordpiece", cls_token |-> "[CLS]", sep_token |-> "[SEP]",
     pad_token_id |-> 0, pad_token_type_id |-> 0]

SentencePiece ==
    [name |-> "sentencepiece", cls_token |-> "<cls>", sep_token |-> "<sep>",
     pad_token_id |-> 5, pad_token_type_id |-> 3]

Tokenizers == {WordPiece, SentencePiece}

\* tokenizer.tokenize(word)
Tokenize(tk, word) ==
    IF tk.name = "wordpiece"
    THEN CASE word = "great" -> <<"great">>
           [] word = "food"  -> <<"fo", "##od">>
           [] OTHER          -> <<>>
    ELSE CASE word = "great" -> <<"_great">>
           [] word = "food"  -> <<"_food">>
           [] OTHER          -> <<>>

\* the id of one token in the tokenizer's vocabulary
TokenId(tk, t) ==
    IF tk.name = "wordpiece"
    THEN CASE t = "[CLS]" -> 101
           [] t = "[SEP]" -> 102
           [] t = "great" -> 21
           [] t = "fo"    -> 22
           [] t = "##od"  -> 23
           [] OTHER       -> 100
    ELSE CASE t = "<cls>"  -> 3
           [] t = "<sep>"  -> 4
           [] t = "_great" -> 31
           [] t = "_food"  -> 32
           [] OTHER        -> 0

\* tokenizer.convert_tokens_to_ids(tokens)
ConvertTokensToIds(tk, toks) == [i \in 1..Len(toks) |-> TokenId(tk, toks[i])]

(***************************************************************************)
(* The feature encoder.                                                    *)
(***************************************************************************)
sequence_segment_id == 0

cls_token_segment_id == 1

label_pad == 0

\* the label vocabularies a caller passes
LabelLists == {<<"O", "B-POS">>, <<"B-POS", "O">>}

\* zip(example.words, example.labels): an example is its list of pairs.
\* The label "X" is in no vocabulary.
Pairs == {[word |-> "great", label |-> "O"], [word |-> "food", label |-> "B-POS"],
          [word |-> "zwsp", label |-> "O"], [word |-> "great", label |-> "X"],
          [word |-> "zwsp", label |-> "X"]}

RECURSIVE ExampleLists(_, _)
\* the lists of at most e examples that hold at most w words in all
ExampleLists(e, w) ==
    IF e = 0 THEN {<<>>}
    ELSE {<<>>} \cup
         UNION {{<<x>> \o r : r \in ExampleLists(e - 1, w - Len(x))} :
                x \in SeqsUpTo(Pairs, w)}

\* label_map = {label: i for i, label in enumerate(label_list)}
LabelMap(label_list) ==
    [l \in {label_list[i] : i \in 1..Len(label_list)} |->
        CHOOSE n \in 0..(Len(label_list) - 1) :
            /\ label_list[n + 1] = l
            /\ \A m \in (n + 1)..(Len(label_list) - 1) : label_list[m + 1] # l]

\* mutant of MarkFirst: every sub-token of the word carries the value
MarkEvery(n, first, rest) == [i \in 1..n |-> first]

\* v_tok = [0] * len(new_tokens); v_tok[0] = 1   (new_tokens not empty)
MarkFirst(n, first, rest) == [i \in 1..n |-> IF i = 1 THEN first ELSE rest]

RECURSIVE WordLoopDefaultLabel(_, _, _, _, _)
\* mutant of WordLoop: label_map.get(label, label_pad) for label_map[label]
WordLoopDefaultLabel(tk, label_map, ex, i, acc) ==
    IF i > Len(ex) THEN acc
    ELSE LET new_tokens == Tokenize(tk, ex[i].word) IN
         IF new_tokens = <<>>
         THEN [acc EXCEPT !.err = "IndexError"]
         ELSE WordLoopDefaultLabel(tk, label_map, ex, i + 1,
                [err |-> "",
                 tokens |-> acc.tokens \o new_tokens,
                 valid_tokens |-> acc.valid_tokens \o MarkFirst(Len(new_tokens), 1, 0),
                 labels |-> acc.labels \o
                    MarkFirst(Len(new_tokens),
                              IF ex[i].label \in DOMAIN label_map
                              THEN label_map[ex[i].label] ELSE label_pad,
                              label_pad)])

RECURSIVE WordLoopSkipEmpty(_, _, _, _, _)
\* mutant of WordLoop: a word without sub-tokens is skipped
WordLoopSkipEmpty(tk, label_map, ex, i, acc) ==
    IF i > Len(ex) THEN acc
    ELSE LET new_tokens == Tokenize(tk, ex[i].word) IN
         IF new_tokens = <<>>
         THEN WordLoopSkipEmpty(tk, label_map, ex, i + 1, acc)
         ELSE IF ex[i].label \notin DOMAIN label_map
         THEN [acc EXCEPT !.err = "KeyError"]
         ELSE WordLoopSkipEmpty(tk, label_map, ex, i + 1,
                [err |-> "",
                 tokens |-> acc.tokens \o new_tokens,
                 valid_tokens |-> acc.valid_tokens \o MarkFirst(Len(new_tokens), 1, 0),
                 labels |-> acc.labels \o
                    MarkFirst(Len(new_tokens), label_map[ex[i].label], label_pad)])

RECURSIVE WordLoop(_, _, _, _, _)
\* the loop over zip(example.words, example.labels), from pair i on, with
\* the lists collected so far in acc; err names the exception it raises
WordLoop(tk, label_map, ex, i, acc) ==
    IF i > Len(ex) THEN acc
    ELSE LET new_tokens == Tokenize(tk, ex[i].word) IN
         IF new_tokens = <<>>
         THEN [acc EXCEPT !.err = "IndexError"]
         ELSE IF ex[i].label \notin DOMAIN label_map
         THEN [acc EXCEPT !.err = "KeyError"]
         ELSE WordLoop(tk, label_map, ex, i + 1,
                [err |-> "",
                 tokens |-> acc.tokens \o new_tokens,
                 valid_tokens |-> acc.valid_tokens \o MarkFirst(Len(new_tokens), 1, 0),
                 labels |-> acc.labels \o
                    MarkFirst(Len(new_tokens), label_map[ex[i].label], label_pad)])

\* tokens[:(max_seq_length - 2)]
Truncate(s, max_len) == Slice(s, max_len - 2)

\* mutant of Padding: pads with 0, whatever the pad value
PaddingWithZero(x, max_len, n) == Repeat(0, max_len - n)

\* the padding appended on the right of a list of length n
Padding(x, max_len, n) == Repeat(x, max_len - n)

\* one pass of the body of the loop over the examples
EncodeExample(tk, label_list, max_len, mask_zero, ex) ==
    LET loop == WordLoop(tk, LabelMap(label_list), ex, 1,
                    [err |-> "", tokens |-> <<>>, valid_tokens |-> <<>>, labels |-> <<>>])
        tokens == <<tk.cls_token>> \o Truncate(loop.tokens, max_len) \o <<tk.sep_token>>
        lbls == <<label_pad>> \o Truncate(loop.labels, max_len) \o <<label_pad>>
        valid == <<0>> \o Truncate(loop.valid_tokens, max_len) \o <<0>>
        segment_ids == <<cls_token_segment_id>> \o
                       Repeat(sequence_segment_id, Len(tokens) - 1)
        input_ids == ConvertTokensToIds(tk, tokens)
        input_mask == Repeat(IF mask_zero THEN 1 ELSE 0, Len(input_ids))
        n == Len(input_ids)
        feature ==
            [input_ids |-> input_ids \o Padding(tk.pad_token_id, max_len, n),
             attention_mask |-> input_mask \o
                                Padding(IF mask_zero THEN 0 ELSE 1, max_len, n),
             token_type_ids |-> segment_ids \o Padding(tk.pad_token_type_id, max_len, n),
             label_ids |-> lbls \o Padding(label_pad, max_len, n)]
        valid_padded == valid \o Padding(0, max_len, n)
    IN  IF loop.err # "" THEN [err |-> loop.err]
        ELSE IF \/ Len(feature.input_ids) # max_len
                \/ Len(feature.attention_mask) # max_len
                \/ Len(feature.token_type_ids) # max_len
                \/ Len(valid_padded) # max_len
                \/ Len(feature.label_ids) # max_len
        THEN [err |-> "AssertionError"]
        ELSE [err |-> "", feature |-> feature]

\* the value of `result` before the call returns
NoResult == "none"

VARIABLES
    in_examples,            \* the examples passed to the call
    label_list,             \* the label vocabulary passed to the call
    max_seq_length,         \* the length passed to the call
    tokenizer,              \* the tokenizer passed to the call
    mask_padding_with_zero, \* the flag passed to the call
    ex_index,               \* number of examples encoded so far
    features,               \* the local list of records
    result,                 \* what the call returned, NoResult if nothing
    epc,                    \* "loop", "done" (returned) or "failed" (raised)
    eerr                    \* the exception raised, "" if none

evars == <<in_examples, label_list, max_seq_length, tokenizer,
           mask_padding_with_zero, ex_index, features, result, epc, eerr>>

einputs == <<in_examples, label_list, max_seq_length, tokenizer,
             mask_padding_with_zero>>

VARIABLES
    file,        \* the text of {mode}.txt
    f,           \* the lines the file iterator has still to yield
    words,       \* words of the block being read
    labels,      \* labels of the block being read
    examples,    \* examples emitted so far
    guid_index,  \* number of the next example
    returned,    \* what the call returned, NoResult if nothing
    rpc,         \* "loop", "done" (returned) or "failed" (raised)
    rerr         \* the exception raised, "" if none

rvars == <<file, f, words, labels, examples, guid_index, returned, rpc, rerr>>

vars == <<rvars, evars>>

\* the encoder at rest, while the reader runs
EncoderIdle ==
    /\ in_examples = <<>>
    /\ label_list = <<>>
    /\ max_seq_length = 0
    /\ tokenizer = WordPiece
    /\ mask_padding_with_zero = TRUE
    /\ ex_index = 0
    /\ features = <<>>
    /\ result = NoResult
    /\ epc = "idle"
    /\ eerr = ""

\* the reader at rest, while the encoder runs
ReaderIdle ==
    /\ file = <<>>
    /\ f = <<>>
    /\ words = <<>>
    /\ labels = <<>>
    /\ examples = <<>>
    /\ guid_index = 1
    /\ returned = NoResult
    /\ rpc = "idle"
    /\ rerr = ""

ReaderInit ==
    /\ EncoderIdle
    /\ file \in SeqsUpTo(Chars, MaxFileLen)
    /\ f = SplitLines(file)
    /\ words = <<>>
    /\ labels = <<>>
    /\ examples = <<>>
    /\ guid_index = 1
    /\ returned = NoResult
    /\ rpc = "loop"
    /\ rerr = ""

\* a blank line: close the block, if one is open
ReadBlankLine ==
    /\ rpc = "loop"
    /\ f # <<>>
    /\ IsBlankLine(Head(f))
    /\ examples' = Emit(examples, guid_index, words, labels)
    /\ guid_index' = IF words # <<>> THEN guid_index + 1 ELSE guid_index
    /\ words' = <<>>
    /\ labels' = <<>>
    /\ f' = Tail(f)
    /\ UNCHANGED <<file, returned, rpc, rerr, evars>>

\* mutant of ReadTokenLine: a line without a label adds no label
ReadTokenLineUnlabelled ==
    /\ rpc = "loop"
    /\ f # <<>>
    /\ ~IsBlankLine(Head(f))
    /\ LET splits == Split(Head(f)) IN
        /\ splits # <<>>
        /\ words' = Append(words, splits[1])
        /\ labels' = IF Len(splits) > 1
                     THEN Append(labels, StripNewlines(Last(splits))) ELSE labels
    /\ f' = Tail(f)
    /\ UNCHANGED <<file, examples, guid_index, returned, rpc, rerr, evars>>

\* a line with at least one field: record its word and label
ReadTokenLine ==
    /\ rpc = "loop"
    /\ f # <<>>
    /\ ~IsBlankLine(Head(f))
    /\ LET splits == Split(Head(f)) IN
        /\ splits # <<>>
        /\ words' = Append(words, splits[1])
        /\ labels' = Append(labels, LineLabel(splits))
    /\ f' = Tail(f)
    /\ UNCHANGED <<file, examples, guid_index, returned, rpc, rerr, evars>>

\* a non-blank line without fields: splits[0] raises IndexError
ReadFieldlessLine ==
    /\ rpc = "loop"
    /\ f # <<>>
    /\ ~IsBlankLine(Head(f))
    /\ Split(Head(f)) = <<>>
    /\ rpc' = "failed"
    /\ rerr' = "IndexError"
    /\ UNCHANGED <<file, f, words, labels, examples, guid_index, returned, evars>>

\* end of file: emit the open block and return
ReadReturn ==
    /\ rpc = "loop"
    /\ f = <<>>
    /\ examples' = Emit(examples, guid_index, words, labels)
    /\ returned' = examples'
    /\ rpc' = "done"
    /\ UNCHANGED <<file, f, words, labels, guid_index, rerr, evars>>

ReaderNext ==
    \/ ReadBlankLine
    \/ ReadTokenLine
    \/ ReadFieldlessLine
    \/ ReadReturn

ReaderSpec == ReaderInit /\ [][ReaderNext]_vars

(***************************************************************************)
(* What the reader's claims speak of, stated over the file itself.         *)
(***************************************************************************)
FileLines == SplitLines(file)

\* lines the iterator has yielded so far
Consumed == Len(FileLines) - Len(f)

\* a line with nothing on it but its newline
Blank(l) == \A j \in 1..Len(l) : l[j] = "\n"

\* a line with at least one field
HasField(l) == \E j \in 1..Len(l) : l[j] \notin Whitespace

\* a line that is not blank and has no field: spaces and tabs only
Fieldless(l) == ~Blank(l) /\ ~HasField(l)

ValidFile == \A i \in 1..Len(FileLines) : Blank(FileLines[i]) \/ HasField(FileLines[i])

\* the lines that open a block of non-blank lines
BlockStarts ==
    {i \in 1..Len(FileLines) :
        ~Blank(FileLines[i]) /\ (i = 1 \/ Blank(FileLines[i - 1]))}

\* the line that opens the k-th block
BlockStart(k) ==
    CHOOSE s \in BlockStarts : Cardinality({t \in BlockStarts : t < s}) = k - 1

\* the number of lines of the block that line s opens
BlockSize(s) ==
    Cardinality({j \in s..Len(FileLines) : \A i \in s..j : ~Blank(FileLines[i])})

\* the j-th line of the k-th block
BlockLine(k, j) == FileLines[BlockStart(k) + j - 1]

\* the fields of a line, as the pairs <<first, last>> of their positions
FieldSpans(l) ==
    {sp \in (1..Len(l)) \X (1..Len(l)) :
        /\ sp[1] <= sp[2]
        /\ \A i \in sp[1]..sp[2] : l[i] \notin Whitespace
        /\ sp[1] = 1 \/ l[sp[1] - 1] \in Whitespace
        /\ sp[2] = Len(l) \/ l[sp[2] + 1] \in Whitespace}

FirstField(l) ==
    LET sp == CHOOSE x \in FieldSpans(l) : \A y \in FieldSpans(l) : x[1] <= y[1]
    IN  SubSeq(l, sp[1], sp[2])

LastField(l) ==
    LET sp == CHOOSE x \in FieldSpans(l) : \A y \in FieldSpans(l) : x[1] >= y[1]
    IN  SubSeq(l, sp[1], sp[2])

\* the lines of the block still open: the non-blank lines that end the
\* consumed part of the file
OpenBlockSize ==
    Cardinality({j \in 1..Consumed : \A i \in j..Consumed : ~Blank(FileLines[i])})

\* C3: the reader returns one example per blank-line-delimited block of
\* non-blank lines, in file order: the k-th example holds the first fields
\* of the lines of the k-th block, whatever blank lines lead, repeat or
\* are missing at the end.
C3_OneExamplePerBlock ==
    (rpc = "done" /\ ValidFile) =>
        /\ returned # NoResult
        /\ Len(returned) = Cardinality(BlockStarts)
        /\ \A k \in 1..Len(returned) :
            /\ returned[k].words # <<>>
            /\ Len(returned[k].words) = BlockSize(BlockStart(k))
            /\ \A j \in 1..Len(returned[k].words) :
                  returned[k].words[j] = FirstField(BlockLine(k, j))

\* C3 witness: a file with a leading blank line, a run of two blank lines
\* and a last block without a closing blank line was read to the end.
C3_Witness ==
    /\ rpc = "done"
    /\ Len(returned) = 2
    /\ Len(FileLines) >= 5
    /\ Blank(FileLines[1])
    /\ \E i \in 2..(Len(FileLines) - 1) : Blank(FileLines[i]) /\ Blank(FileLines[i + 1])
    /\ ~Blank(FileLines[Len(FileLines)])
    /\ Last(Last(FileLines)) # "\n"

\* C4: at every point of the line loop the words and labels collected have
\* the same length, the number of lines of the open block; every example
\* emitted has as many labels as words, the number of lines of its block.
C4_LabelsMatchWords ==
    /\ Len(labels) = Len(words)
    /\ rpc = "loop" => Len(words) = OpenBlockSize
    /\ \A k \in 1..Len(examples) :
        /\ Len(examples[k].labels) = Len(examples[k].words)
        /\ Len(examples[k].words) = BlockSize(BlockStart(k))

\* C4 witness: an example of two lines, one with a label and one without,
\* was returned.
C4_Witness ==
    /\ rpc = "done"
    /\ \E k \in 1..Len(returned) :
        /\ Len(returned[k].words) = 2
        /\ returned[k].labels[1] # DefaultLabel
        /\ returned[k].labels[2] = DefaultLabel

\* C5: for every line recorded, the word is the line's first field; the
\* label is "O" when the line has one field and the line's last field when
\* it has two or more (the fields between are ignored).
C5_WordAndLabelOfLine ==
    \A k \in 1..Len(examples) : \A j \in 1..Len(examples[k].words) :
        LET l == BlockLine(k, j) IN
        /\ examples[k].words[j] = FirstField(l)
        /\ Cardinality(FieldSpans(l)) = 1 => examples[k].labels[j] = DefaultLabel
        /\ Cardinality(FieldSpans(l)) >= 2 => examples[k].labels[j] = LastField(l)

\* C5 witness: a line of three fields was recorded, its middle field dropped.
C5_Witness ==
    /\ rpc = "done"
    /\ Len(returned) >= 1
    /\ Cardinality(FieldSpans(BlockLine(1, 1))) = 3
    /\ returned[1].words[1] = <<"a">>
    /\ returned[1].labels[1] = <<"b">>

\* C9: a line of spaces or tabs only is never consumed, as a boundary or
\* otherwise: the call raises IndexError at the first such line and returns
\* no example list; a call that returns has met no such line.
C9_FieldlessLineFails ==
    /\ \A i \in 1..Consumed : ~Fieldless(FileLines[i])
    /\ (rpc = "loop" /\ f # <<>> /\ Fieldless(Head(f))) =>
            ~ENABLED ReadBlankLine /\ ~ENABLED ReadTokenLine /\ ENABLED ReadFieldlessLine
    /\ rpc = "failed" =>
            /\ rerr = "IndexError"
            /\ Fieldless(Head(f))
            /\ returned = NoResult
    /\ (\E i \in 1..Len(FileLines) : Fieldless(FileLines[i])) =>
            rpc # "done" /\ returned = NoResult

\* C9 witness: the call failed on a line of blanks that follows a block.
C9_Witness ==
    /\ rpc = "failed"
    /\ rerr = "IndexError"
    /\ words # <<>>
    /\ Head(f) \in {<<" ", "\n">>, <<"\t", "\n">>, <<" ">>}

(***************************************************************************)
(* The encoder's steps: one per pass of the loop over the examples.        *)
(***************************************************************************)
EncoderInit ==
    /\ ReaderIdle
    /\ in_examples \in ExampleLists(MaxExamples, MaxWords)
    /\ label_list \in LabelLists
    /\ max_seq_length \in 0..MaxSeqLen
    /\ tokenizer \in Tokenizers
    /\ mask_padding_with_zero \in BOOLEAN
    /\ ex_index = 0
    /\ features = <<>>
    /\ result = NoResult
    /\ epc = "loop"
    /\ eerr = ""

\* the outcome of the pass over the next example
NextOutcome ==
    EncodeExample(tokenizer, label_list, max_seq_length, mask_padding_with_zero,
                  in_examples[ex_index + 1])

\* the pass completes and appends the example's record
EncodeOne ==
    /\ epc = "loop"
    /\ ex_index < Len(in_examples)
    /\ NextOutcome.err = ""
    /\ features' = Append(features, NextOutcome.feature)
    /\ ex_index' = ex_index + 1
    /\ UNCHANGED <<einputs, result, epc, eerr, rvars>>

\* the pass raises: the exception leaves the call, the local list is lost
EncodeRaises ==
    /\ epc = "loop"
    /\ ex_index < Len(in_examples)
    /\ NextOutcome.err # ""
    /\ epc' = "failed"
    /\ eerr' = NextOutcome.err
    /\ UNCHANGED <<einputs, ex_index, features, result, rvars>>

\* `return features`
EncodeReturn ==
    /\ epc = "loop"
    /\ ex_index = Len(in_examples)
    /\ result' = features
    /\ epc' = "done"
    /\ UNCHANGED <<einputs, ex_index, features, eerr, rvars>>

EncoderNext ==
    \/ EncodeOne
    \/ EncodeRaises
    \/ EncodeReturn

EncoderSpec == EncoderInit /\ [][EncoderNext]_vars

(***************************************************************************)
(* What the encoder's claims speak of, stated over the call's inputs.      *)
(***************************************************************************)
\* the sub-tokens of word j of example ex
SubTokens(ex, j) == Tokenize(tokenizer, ex[j].word)

RECURSIVE SubTokenCount(_, _)
\* the number of sub-tokens of the first j words of ex
SubTokenCount(ex, j) ==
    IF j = 0 THEN 0 ELSE SubTokenCount(ex, j - 1) + Len(SubTokens(ex, j))

\* the i-th sub-token of the concatenated sub-tokens of ex
SubTokenAt(ex, i) ==
    LET j == CHOOSE w \in 1..Len(ex) :
                SubTokenCount(ex, w - 1) < i /\ i <= SubTokenCount(ex, w)
    IN  SubTokens(ex, j)[i - SubTokenCount(ex, j - 1)]

\* the number of sub-tokens of ex a record keeps
Kept(ex) ==
    LET n == SubTokenCount(ex, Len(ex))
    IN  IF n < max_seq_length - 2 THEN n ELSE max_seq_length - 2

\* the index of a label in the vocabulary, counted from 0
IndexOf(l) == CHOOSE n \in 0..(Len(label_list) - 1) : label_list[n + 1] = l

KnownLabel(l) == \E n \in 1..Len(label_list) : label_list[n] = l

\* the words of the call, as pairs <<example, word>>
WordsOfCall ==
    UNION {{<<e, j>> : j \in 1..Len(in_examples[e])} : e \in 1..Len(in_examples)}

Before(a, b) == a[1] < b[1] \/ (a[1] = b[1] /\ a[2] < b[2])

EmptyWord(ew) == SubTokens(in_examples[ew[1]], ew[2]) = <<>>

UnknownLabel(ew) == ~KnownLabel(in_examples[ew[1]][ew[2]].label)

HasUnknownLabel == \E ew \in WordsOfCall : UnknownLabel(ew)

HasEmptyWord == \E ew \in WordsOfCall : EmptyWord(ew)

\* no word before ew stops the call, nor does a length assertion
ReachedFirst(ew) ==
    /\ \A x \in WordsOfCall : Before(x, ew) => ~EmptyWord(x) /\ ~UnknownLabel(x)
    /\ max_seq_length >= 2 \/ ew[1] = 1

\* C1: every record has its four lists of length max_seq_length and no
\* length assertion ever fails, whatever max_seq_length the caller passes.
C1_LengthAssertionsHold ==
    /\ eerr # "AssertionError"
    /\ \A e \in 1..Len(features) :
        /\ Len(features[e].input_ids) = max_seq_length
        /\ Len(features[e].attention_mask) = max_seq_length
        /\ Len(features[e].token_type_ids) = max_seq_length
        /\ Len(features[e].label_ids) = max_seq_length

\* C2: in every record, the entry of label_ids at the position of a word's
\* first sub-token (one past the classifier token) is the index of the
\* word's label in label_list, and the entries at the word's other
\* sub-tokens are 0, for all sub-tokens that survive truncation; two words
\* of one sub-token each labelled O and B-POS give
\* [0, idx(O), idx(B-POS), 0, ..., 0].
C2_LabelAlignment ==
    \A e \in 1..Len(features) :
        LET ex == in_examples[e]
            lab == features[e].label_ids
        IN
        /\ \A j \in 1..Len(ex) :
             LET first == SubTokenCount(ex, j - 1) + 1 IN
             \A i \in first..SubTokenCount(ex, j) :
                i <= max_seq_length - 2 =>
                    lab[i + 1] = IF i = first THEN IndexOf(ex[j].label) ELSE 0
        /\ ( /\ ex = <<[word |-> "great", label |-> "O"],
                       [word |-> "food", label |-> "B-POS"]>>
             /\ Len(SubTokens(ex, 1)) = 1
             /\ Len(SubTokens(ex, 2)) = 1
             /\ max_seq_length >= 4 )
           => lab = <<0, IndexOf("O"), IndexOf("B-POS")>> \o
                    [p \in 1..(max_seq_length - 3) |-> 0]

\* C2 witness: a word of two sub-tokens whose label has a non-zero index was
\* encoded whole, after another word.
C2_Witness ==
    /\ epc = "done"
    /\ Len(result) >= 1
    /\ in_examples[1] = <<[word |-> "great", label |-> "O"],
                          [word |-> "food", label |-> "B-POS"]>>
    /\ tokenizer = WordPiece
    /\ result[1].label_ids = <<0, 0, 1, 0, 0>>

\* C2 second witness: the example of the claim, one sub-token per word.
C2_ExampleReached ==
    /\ epc = "done"
    /\ Len(result) >= 1
    /\ in_examples[1] = <<[word |-> "great", label |-> "O"],
                          [word |-> "food", label |-> "B-POS"]>>
    /\ tokenizer = SentencePiece
    /\ result[1].label_ids = <<0, 0, 1, 0, 0>>

C7_RightPadding ==
    mask_padding_with_zero =>
        \A e \in 1..Len(features) :
            LET k == Kept(in_examples[e])
                r == features[e]
            IN
            /\ DOMAIN r.attention_mask = 1..max_seq_length
            /\ \A p \in 1..max_seq_length :
                /\ p <= k + 2 => r.attention_mask[p] = 1
                /\ p > k + 2 =>
                    /\ r.attention_mask[p] = 0
                    /\ r.input_ids[p] = tokenizer.pad_token_id
                    /\ r.token_type_ids[p] = tokenizer.pad_token_type_id
                    /\ r.label_ids[p] = 0

\* C7 witness: a record of one sub-token was padded by two positions with a
\* tokenizer whose pad id and pad segment are not 0.
C7_Witness ==
    /\ epc = "done"
    /\ mask_padding_with_zero
    /\ tokenizer = SentencePiece
    /\ max_seq_length = 5
    /\ Len(result) >= 1
    /\ result[1].attention_mask = <<1, 1, 1, 0, 0>>
    /\ result[1].input_ids = <<3, 31, 4, 5, 5>>
    /\ result[1].token_type_ids = <<1, 0, 0, 3, 3>>

\* C8 as stated, for max_seq_length >= 2 (where no length assertion can
\* fail): a label missing from label_list makes the call fail with the
\* lookup failure, KeyError, and return no feature list.
C8_Original ==
    (max_seq_length >= 2 /\ HasUnknownLabel /\ epc \in {"done", "failed"}) =>
        /\ epc = "failed"
        /\ eerr = "KeyError"
        /\ result = NoResult

\* C8 amended: a label missing from label_list makes the call fail and
\* return no feature list, whether or not the word lies beyond the point
\* of truncation; the failure is the lookup failure, KeyError, exactly when
\* the first word with such a label has a sub-token and nothing stops the
\* call before it (no earlier word without sub-tokens, no failed length
\* assertion of an earlier example).
C8_UnknownLabelFails ==
    HasUnknownLabel =>
        /\ epc # "done"
        /\ result = NoResult
        /\ epc = "failed" =>
            /\ eerr \in {"KeyError", "IndexError", "AssertionError"}
            /\ eerr = "KeyError" <=>
                \E ew \in WordsOfCall :
                    UnknownLabel(ew) /\ ~EmptyWord(ew) /\ ReachedFirst(ew)

\* C8 witness: the call raised KeyError for a word beyond the point of
\* truncation, in the second example, after a first example was encoded.
C8_Witness ==
    /\ epc = "failed"
    /\ eerr = "KeyError"
    /\ ex_index = 1
    /\ Len(features) = 1
    /\ result = NoResult
    /\ max_seq_length = 2
    /\ Len(in_examples[2]) = 2
    /\ ~UnknownLabel(<<2, 1>>)
    /\ UnknownLabel(<<2, 2>>)

\* C10 as stated, for max_seq_length >= 2: a word without sub-tokens makes
\* the call fail with the index failure, IndexError, and return no feature
\* list; without such a word and with every label known the call returns
\* one record per example.
C10_Original ==
    /\ (max_seq_length >= 2 /\ HasEmptyWord /\ epc \in {"done", "failed"}) =>
        /\ epc = "failed"
        /\ eerr = "IndexError"
        /\ result = NoResult
    /\ (max_seq_length >= 2 /\ ~HasEmptyWord /\ ~HasUnknownLabel /\ epc = "done") =>
        Len(result) = Len(in_examples)

\* C10 amended: a word without sub-tokens makes the call fail and return no
\* feature list; the failure is the index failure, IndexError, exactly when
\* nothing stops the call before the first such word (no earlier word with
\* a label missing from label_list, no failed length assertion of an
\* earlier example).  When every word has a sub-token, every label is in
\* label_list and max_seq_length >= 2, the call does not fail and returns
\* one record per example, in input order.
C10_EmptyWordFails ==
    /\ HasEmptyWord =>
        /\ epc # "done"
        /\ result = NoResult
        /\ epc = "failed" =>
            (eerr = "IndexError" <=>
                \E ew \in WordsOfCall : EmptyWord(ew) /\ ReachedFirst(ew))
    /\ (~HasEmptyWord /\ ~HasUnknownLabel /\ max_seq_length >= 2) =>
        /\ epc # "failed"
        /\ Len(features) = ex_index
        /\ epc = "done" =>
            /\ Len(result) = Len(in_examples)
            /\ \A e \in 1..Len(result) :
                LET ex == in_examples[e]
                    k == Kept(ex)
                IN
                /\ \A i \in 1..k :
                    result[e].input_ids[i + 1] = TokenId(tokenizer, SubTokenAt(ex, i))
                /\ result[e].input_ids[k + 2] = TokenId(tokenizer, tokenizer.sep_token)
                /\ k + 2 < max_seq_length =>
                    result[e].input_ids[k + 3] = tokenizer.pad_token_id

\* C10 witness: the call raised IndexError in its second example, after
\* the first was encoded.
C10_Witness ==
    /\ epc = "failed"
    /\ eerr = "IndexError"
    /\ ex_index = 1
    /\ Len(features) = 1
    /\ result = NoResult
    /\ EmptyWord(<<2, 1>>)

\* C10 second witness: a call on two different examples returned their two
\* records in order.
C10_ReturnedInOrder ==
    /\ epc = "done"
    /\ max_seq_length = 5
    /\ tokenizer = WordPiece
    /\ Len(result) = 2
    /\ result[1].input_ids = <<101, 22, 23, 102, 0>>
    /\ result[2].input_ids = <<101, 21, 102, 0, 0>>

====
